---- MODULE Spec2Model ----
(***************************************************************************)
(* Model of the Mendix microflow API (src/unnamed/part_000): the helper    *)
(* getModuleName, which resolves the module owning a microflow, and the    *)
(* request handlers that enumerate microflows with it or look one up; and  *)
(* of the entity routes of src/src/index.ts.  The calls to the platform    *)
(* (working copy, model, load, commit) succeed.                            *)
(*                                                                         *)
(* Strings are sequences of one-character strings, so that split('.') and  *)
(* the template strings are computed, not assumed.  A JavaScript value of  *)
(* type string | null is a record [isNull, s].  An object reference is a   *)
(* container id, NoRef standing for null/undefined.                        *)
(***************************************************************************)
EXTENDS Integers, Sequences, FiniteSets, TLC

\* Bounds of the model.
NumNodes == 3
NumMf == 2
MaxEntities == 1

Nodes == 1..NumNodes
NoRef == 0

\* ---------------------------------------------------------------- values
Null == [isNull |-> TRUE, s |-> <<>>]
Str(s) == [isNull |-> FALSE, s |-> s]
\* JavaScript truthiness of a string | null: null and "" are falsy.
Truthy(v) == ~v.isNull /\ v.s /= <<>>

Dot == "."
ModuleType == "Projects$Module"
FolderType == "Projects$Folder"
UnknownLabel == <<"U", "n", "k", "n", "o", "w", "n">>

\* Names a module or folder of the model can carry: two that differ by case
\* only, and one that is literally the handlers' fallback label.
NodeNames == << <<"S">>, <<"s">>, UnknownLabel >>
NameOfNode(n) == NodeNames[((n - 1) % Len(NodeNames)) + 1]
MfNames == << <<"P">>, <<"Q">> >>
NameOfMf(i) == MfNames[((i - 1) % Len(MfNames)) + 1]

\* qualifiedName values: absent, empty, without delimiter, with one, with an
\* empty first segment, with two delimiters.
QNames == { Null, Str(<<>>), Str(<<"P">>), Str(<<"s", Dot, "P">>),
            Str(<<Dot, "P">>), Str(<<"S", Dot, "s", Dot, "P">>) }

\* The attribute whose read raises while an element is resolved ("none": no
\* read raises).  "name" is the name of a container or of the direct owner;
\* the element's own name is the separate flag nameFault.
FaultAttrs == {"containerAsModule", "container", "structureTypeName", "name", "qualifiedName"}
NoFault == "none"

VARIABLES
  containers,   \* the model's container nodes: id -> [structureTypeName, name, container]
  mfs,          \* model.allMicroflows(): sequence of elements
  loc,          \* the running getModuleName call (step by step)
  req,          \* the last request handled
  resp,         \* its response
  wc,           \* the request's temporary working copy: none, checkedOut, deleted
  entities,     \* the repository's entities: module id -> their names in order
  seen,         \* history: per microflow, the outcomes getModuleName gave its callers
  calls         \* history: per microflow, the number of finished calls (saturating)

vars == <<containers, mfs, loc, req, resp, wc, entities, seen, calls>>

\* ------------------------------------------------------------- split('.')
HasDot(str) == \E i \in 1..Len(str) : str[i] = Dot
FirstDot(str) == CHOOSE i \in 1..Len(str) : str[i] = Dot /\ \A j \in 1..(i - 1) : str[j] /= Dot

RECURSIVE Split(_)
Split(str) ==
  IF ~HasDot(str) THEN <<str>>
  ELSE <<SubSeq(str, 1, FirstDot(str) - 1)>> \o Split(SubSeq(str, FirstDot(str) + 1, Len(str)))

\* ------------------------------------------------------- getModuleName
\* A call's configuration: pc is the position in the function, microflow the
\* element the parameter references, container the loop variable, visited
\* the containers the loop body has examined (history, saturating).  pc is
\* "shortcut", "walk" (the loop test), "body", "heuristic", "catch", and
\* at the end "returned" or "thrown".
StepCap == NumNodes + 2

NoMf == [name |-> <<>>, qualifiedName |-> Null, containerAsModule |-> NoRef,
         container |-> NoRef, fault |-> NoFault, nameFault |-> FALSE]

IdleLoc == [pc |-> "idle", mf |-> 0, microflow |-> NoMf, container |-> NoRef,
            visited |-> <<>>, caught |-> FALSE, result |-> Null]

CallLoc(i) == [pc |-> "shortcut", mf |-> i, microflow |-> mfs[i], container |-> NoRef,
               visited |-> <<>>, caught |-> FALSE, result |-> Null]

Return(l, v) == [l EXCEPT !.pc = "returned", !.result = v]
Raise(l) == [l EXCEPT !.pc = "catch", !.caught = TRUE]
Visit(l) == IF Len(l.visited) < StepCap
            THEN [l EXCEPT !.visited = Append(l.visited, l.container)]
            ELSE l

\* A slip this code could have: the shortcut is ignored and the walk always made.
ShortcutStep_Ignored(l) ==
  [l EXCEPT !.pc = "walk", !.container = l.microflow.container]

\* A slip this code could have: the walk starts at the container's container.
ShortcutStep_SkipParent(l) ==
  LET m == l.microflow IN
  IF m.fault = "containerAsModule" THEN Raise(l)
  ELSE IF m.containerAsModule /= NoRef
  THEN IF m.fault = "name" THEN Raise(l)
       ELSE Return(l, Str(containers[m.containerAsModule].name))
  ELSE IF m.fault = "container" THEN Raise(l)
  ELSE [l EXCEPT !.pc = "walk",
                 !.container = IF m.container = NoRef THEN NoRef
                               ELSE containers[m.container].container]

\* Lines 22-29: the direct-owner shortcut, then the start of the walk.
ShortcutStep(l) ==
  LET m == l.microflow IN
  IF m.fault = "containerAsModule" THEN Raise(l)
  ELSE IF m.containerAsModule /= NoRef
  THEN IF m.fault = "name" THEN Raise(l)
       ELSE Return(l, Str(containers[m.containerAsModule].name))
  ELSE IF m.fault = "container" THEN Raise(l)
  ELSE [l EXCEPT !.pc = "walk", !.container = m.container]

\* Line 30: the test of the while condition.
WhileStep(l) ==
  IF l.container = NoRef THEN [l EXCEPT !.pc = "heuristic"] ELSE [l EXCEPT !.pc = "body"]

\* A slip this code could have: the loop assigns the element's field as well as the local.
BodyStep_AssignField(l) ==
  LET c == containers[l.container]
      v == Visit(l)
  IN IF l.microflow.fault = "structureTypeName" THEN Raise(v)
     ELSE IF c.structureTypeName = ModuleType
     THEN IF l.microflow.fault = "name" THEN Raise(v) ELSE Return(v, Str(c.name))
     ELSE IF l.microflow.fault = "container" THEN Raise(v)
     ELSE [v EXCEPT !.pc = "walk", !.container = c.container, !.microflow.container = c.container]

\* A slip this code could have: the loop restarts from the element's container instead of moving up.
BodyStep_Restart(l) ==
  LET c == containers[l.container]
      v == Visit(l)
  IN IF l.microflow.fault = "structureTypeName" THEN Raise(v)
     ELSE IF c.structureTypeName = ModuleType
     THEN IF l.microflow.fault = "name" THEN Raise(v) ELSE Return(v, Str(c.name))
     ELSE IF l.microflow.fault = "container" THEN Raise(v)
     ELSE [v EXCEPT !.pc = "walk", !.container = l.microflow.container]

\* Lines 31-34: one iteration of the loop body.
BodyStep(l) ==
  LET c == containers[l.container]
      v == Visit(l)
  IN IF l.microflow.fault = "structureTypeName" THEN Raise(v)
     ELSE IF c.structureTypeName = ModuleType
     THEN IF l.microflow.fault = "name" THEN Raise(v) ELSE Return(v, Str(c.name))
     ELSE IF l.microflow.fault = "container" THEN Raise(v)
     ELSE [v EXCEPT !.pc = "walk", !.container = c.container]

\* A slip this code could have: parts.length > 0 instead of parts.length > 1.
HeuristicStep_WholeString(l) ==
  LET q == l.microflow.qualifiedName IN
  IF l.microflow.fault = "qualifiedName" THEN Raise(l)
  ELSE IF Truthy(q) /\ Len(Split(q.s)) > 0 THEN Return(l, Str(Split(q.s)[1]))
  ELSE Return(l, Null)

\* Lines 37-45: the qualified-name heuristic, and the final return null.
HeuristicStep(l) ==
  LET q == l.microflow.qualifiedName IN
  IF l.microflow.fault = "qualifiedName" THEN Raise(l)
  ELSE IF Truthy(q) /\ Len(Split(q.s)) > 1 THEN Return(l, Str(Split(q.s)[1]))
  ELSE Return(l, Null)

\* Lines 46-49: the catch block reads microflow.name for the warning, outside
\* any try, and returns null.
CatchStep(l) ==
  IF l.microflow.nameFault THEN [l EXCEPT !.pc = "thrown"]
  ELSE Return(l, Null)

LocDone(l) == l.pc \in {"returned", "thrown"}

LocStep(l) ==
  CASE l.pc = "shortcut" -> ShortcutStep(l)
    [] l.pc = "walk" -> WhileStep(l)
    [] l.pc = "body" -> BodyStep(l)
    [] l.pc = "heuristic" -> HeuristicStep(l)
    [] l.pc = "catch" -> CatchStep(l)
    [] OTHER -> l

\* The whole call, as the handlers make it: the steps run to completion.
RECURSIVE RunLoc(_)
RunLoc(l) == IF LocDone(l) THEN l ELSE RunLoc(LocStep(l))

getModuleName(i) == RunLoc(CallLoc(i))

\* What a call gives its caller.
Outcome(l) == [thrown |-> l.pc = "thrown", value |-> l.result]

\* ------------------------------------------------------------ the model
\* The container graphs: a chain 1 -> 2 -> ... -> NumNodes of containers of
\* either kind; the last one is the root (container absent) or, malformed,
\* refers back to a container of the chain.
Chain(kind, top) ==
  [n \in Nodes |-> [structureTypeName |-> kind[n], name |-> NameOfNode(n),
                    container |-> IF n < NumNodes THEN n + 1 ELSE top]]

Kinds == [Nodes -> {ModuleType, FolderType}]
TreeGraphs == {Chain(k, NoRef) : k \in Kinds}
AllGraphs == {Chain(k, top) : k \in Kinds, top \in {NoRef} \cup Nodes}

Element(n, q, owner, c, f, nf) ==
  [name |-> n, qualifiedName |-> q, containerAsModule |-> owner, container |-> c,
   fault |-> f, nameFault |-> nf]

\* Every element over the graph, for the calls made one at a time.
LocElements ==
  {Element(NameOfMf(1), q, owner, c, f, nf) :
     q \in QNames, owner \in {NoRef} \cup Nodes, c \in {NoRef} \cup Nodes,
     f \in {NoFault} \cup FaultAttrs, nf \in BOOLEAN}

\* The elements a handler enumerates, as <<qualifiedName, direct owner,
\* container, raising attribute, name raises>>: one at every depth of the
\* chain and one outside it, and one each with a direct owner, with a direct
\* owner other than its nearest module, with a qualified name alone, and with
\* one or two attributes whose read raises.
BatchShapes ==
  {<<Null, NoRef, c, NoFault, FALSE>> : c \in {NoRef} \cup Nodes}
  \cup {<<Null, 1, NoRef, NoFault, FALSE>>,
        <<Null, NumNodes, 1, NoFault, FALSE>>,
        <<Str(<<"s", Dot, "P">>), NoRef, NoRef, NoFault, FALSE>>,
        <<Null, NoRef, 1, "containerAsModule", FALSE>>,
        <<Null, NoRef, 1, "qualifiedName", FALSE>>,
        <<Null, NoRef, 1, "containerAsModule", TRUE>>}

BatchLists ==
  {[i \in 1..NumMf |->
      Element(NameOfMf(i), sh[i][1], sh[i][2], sh[i][3], sh[i][4], sh[i][5])] :
     sh \in [1..NumMf -> BatchShapes]}

NoRequest == [route |-> "none", moduleName |-> Null, name |-> Null]
\* The fields of a response the model keeps; microflow is the record of the
\* detail routes, entities the list of GET /apps/:appId/entities.
NoDetail == [name |-> <<>>, module |-> Null, qualifiedName |-> Null]
NoResponse == [status |-> 0, error |-> "", microflows |-> <<>>, microflowsByModule |-> <<>>,
               count |-> 0, totalCount |-> 0, microflow |-> NoDetail, entities |-> <<>>]

Quiet ==
  /\ loc = IdleLoc
  /\ req = NoRequest
  /\ resp = NoResponse
  /\ wc = "none"
  /\ entities = [n \in Nodes |-> <<>>]
  /\ seen = [i \in 1..Len(mfs) |-> {}]
  /\ calls = [i \in 1..Len(mfs) |-> 0]

\* ------------------------------------------- getModuleName, step by step
\* The parameter references the element: a write through it shows in the model.
WriteBack(l) == [mfs EXCEPT ![l.mf] = l.microflow]

LocCall ==
  /\ loc.pc = "idle"
  /\ \E i \in 1..Len(mfs) : loc' = CallLoc(i)
  /\ UNCHANGED <<containers, entities, mfs, req, resp, wc, seen, calls>>

Shortcut ==
  /\ loc.pc = "shortcut"
  /\ loc' = ShortcutStep(loc)
  /\ mfs' = WriteBack(loc')
  /\ UNCHANGED <<containers, entities, req, resp, wc, seen, calls>>

While ==
  /\ loc.pc = "walk"
  /\ loc' = WhileStep(loc)
  /\ mfs' = WriteBack(loc')
  /\ UNCHANGED <<containers, entities, req, resp, wc, seen, calls>>

Body ==
  /\ loc.pc = "body"
  /\ loc' = BodyStep(loc)
  /\ mfs' = WriteBack(loc')
  /\ UNCHANGED <<containers, entities, req, resp, wc, seen, calls>>

Heuristic ==
  /\ loc.pc = "heuristic"
  /\ loc' = HeuristicStep(loc)
  /\ mfs' = WriteBack(loc')
  /\ UNCHANGED <<containers, entities, req, resp, wc, seen, calls>>

Catch ==
  /\ loc.pc = "catch"
  /\ loc' = CatchStep(loc)
  /\ mfs' = WriteBack(loc')
  /\ UNCHANGED <<containers, entities, req, resp, wc, seen, calls>>

LocReturn ==
  /\ LocDone(loc)
  /\ loc' = IdleLoc
  /\ UNCHANGED <<containers, entities, mfs, req, resp, wc, seen, calls>>

LocInit ==
  /\ containers \in AllGraphs
  /\ mfs \in {<<e>> : e \in LocElements}
  /\ Quiet

LocRun == Shortcut \/ While \/ Body \/ Heuristic \/ Catch
LocNext == LocCall \/ LocRun \/ LocReturn

\* One call after another on one element of any shape.
LocSpec == LocInit /\ [][LocNext]_vars

\* A synchronous function runs on: its next step is always taken.
FairLocSpec == LocSpec /\ WF_vars(LocRun)

\* ------------------------------------- calls on two elements, in any order
\* The caller takes the outcome of a finished call; the history notes it.
Count(n) == IF n < 2 THEN n + 1 ELSE n

Record ==
  /\ LocDone(loc)
  /\ loc' = IdleLoc
  /\ seen' = [seen EXCEPT ![loc.mf] = @ \cup {Outcome(loc)}]
  /\ calls' = [calls EXCEPT ![loc.mf] = Count(@)]
  /\ UNCHANGED <<containers, entities, mfs, req, resp, wc>>

PairElements(n) ==
  {Element(n, q, owner, c, NoFault, FALSE) :
     q \in {Null, Str(<<"s", Dot, "P">>)}, owner \in {NoRef, NumNodes}, c \in {NoRef} \cup Nodes}
  \cup {Element(n, Null, NoRef, 1, "structureTypeName", FALSE)}

CallsInit ==
  /\ containers \in AllGraphs
  /\ mfs \in {<<a, b>> : a \in PairElements(NameOfMf(1)), b \in PairElements(NameOfMf(2))}
  /\ Quiet

CallsNext == LocCall \/ LocRun \/ Record

\* Calls on two elements of one model, one after another in any order.
CallsSpec == CallsInit /\ [][CallsNext]_vars

\* ------------------------------------------------------ request handlers
\* allModules(): the containers of kind module, and their names.
IsModule(n) == containers[n].structureTypeName = ModuleType

RECURSIVE ModuleNamesFrom(_)
ModuleNamesFrom(n) ==
  IF n > NumNodes THEN <<>>
  ELSE (IF IsModule(n) THEN <<containers[n].name>> ELSE <<>>) \o ModuleNamesFrom(n + 1)

availableModules == ModuleNamesFrom(1)

Response(status, error, microflows, byModule, total) ==
  [status |-> status, error |-> error, microflows |-> microflows,
   microflowsByModule |-> byModule, count |-> Len(microflows), totalCount |-> total,
   microflow |-> NoDetail, entities |-> <<>>]

\* The least index of a set of indices, 0 when it is empty: an exception
\* ends Array.map / Array.filter at the element that raised it.
FirstAt(raising) ==
  IF raising = {} THEN 0 ELSE CHOOSE i \in raising : \A j \in raising : i <= j

\* The locator has been invoked on the elements up to the one that raised.
Invoked(first, i) == first = 0 \/ i <= first

\* What the invocations leave behind; got[i] is the finished call on element i.
History(got, first) ==
  /\ seen' = [i \in 1..Len(mfs) |->
                IF Invoked(first, i) THEN seen[i] \cup {Outcome(got[i])} ELSE seen[i]]
  /\ mfs' = [i \in 1..Len(mfs) |-> IF Invoked(first, i) THEN got[i].microflow ELSE mfs[i]]

\* Lines 118-122: the record of one microflow; module is getModuleName's value.
\* `${moduleName || 'Unknown'}.${mf.name}` stands in for a falsy qualifiedName.
Label(module) == IF Truthy(module) THEN module.s ELSE UnknownLabel

MicroflowRecord(i, module) ==
  [name |-> mfs[i].name, module |-> module,
   qualifiedName |-> IF Truthy(mfs[i].qualifiedName) THEN mfs[i].qualifiedName.s
                     ELSE Label(module) \o <<Dot>> \o mfs[i].name]

\* Lines 199-203: the record of one microflow of the requested module.
ModuleRecord(i, moduleName) ==
  [name |-> mfs[i].name, module |-> Str(moduleName),
   qualifiedName |-> IF Truthy(mfs[i].qualifiedName) THEN mfs[i].qualifiedName.s
                     ELSE moduleName \o <<Dot>> \o mfs[i].name]

\* The reads of mf.name and mf.qualifiedName the handlers make themselves.
ReadRaises(i) == mfs[i].nameFault \/ mfs[i].fault = "qualifiedName"

\* A slip this code could have: the filter compares without regard to case.
Lower(ch) == IF ch = "S" THEN "s" ELSE IF ch = "U" THEN "u" ELSE ch
LowerStr(str) == [k \in 1..Len(str) |-> Lower(str[k])]
SameModule_IgnoreCase(module, wanted) ==
  ~module.isNull /\ ~wanted.isNull /\ LowerStr(module.s) = LowerStr(wanted.s)

\* Lines 129 and 194: mf.module === moduleName.
SameModule(module, wanted) == module = wanted

\* Lines 135-142: reduce into an object keyed by module || 'Unknown'.
RECURSIVE GroupByModule(_, _)
GroupByModule(records, acc) ==
  IF records = <<>> THEN acc
  ELSE LET r == Head(records)
           key == Label(r.module)
       IN GroupByModule(Tail(records),
            IF key \in DOMAIN acc THEN [acc EXCEPT ![key] = Append(@, r)]
            ELSE [k \in DOMAIN acc \cup {key} |-> IF k = key THEN <<r>> ELSE acc[k]])

EmptyObject == [k \in {} |-> <<>>]

\* GET /apps/:appId/microflows (lines 94-165).
ListMicroflows(moduleName) ==
  LET got == [i \in 1..Len(mfs) |-> getModuleName(i)]
      first == FirstAt({i \in 1..Len(mfs) : got[i].pc = "thrown" \/ ReadRaises(i)})
      microflowData == [i \in 1..Len(mfs) |-> MicroflowRecord(i, got[i].result)]
      filteredMicroflows ==
        IF Truthy(moduleName)
        THEN SelectSeq(microflowData, LAMBDA r : SameModule(r.module, moduleName))
        ELSE microflowData
  IN /\ req' = [route |-> "list", moduleName |-> moduleName, name |-> Null]
     /\ wc' = "checkedOut"
     /\ History(got, first)
     /\ resp' = IF first /= 0
                THEN Response(500, "Failed to fetch microflows", <<>>, EmptyObject, 0)
                ELSE Response(200, "", filteredMicroflows,
                              GroupByModule(filteredMicroflows, EmptyObject), Len(mfs))
     /\ UNCHANGED <<containers, entities, loc, calls>>

\* GET /apps/:appId/modules/:moduleName/microflows (lines 168-221).
ModuleMicroflows(moduleName) ==
  LET found == \E n \in Nodes : IsModule(n) /\ containers[n].name = moduleName
      got == [i \in 1..Len(mfs) |-> getModuleName(i)]
      first == FirstAt({i \in 1..Len(mfs) : got[i].pc = "thrown"})
      InModule(i) == SameModule(got[i].result, Str(moduleName))
      microflowsInModule == SelectSeq([i \in 1..Len(mfs) |-> i], InModule)
      raises == \E k \in 1..Len(microflowsInModule) : ReadRaises(microflowsInModule[k])
      microflowNames ==
        [k \in 1..Len(microflowsInModule) |-> ModuleRecord(microflowsInModule[k], moduleName)]
  IN /\ req' = [route |-> "module", moduleName |-> Str(moduleName), name |-> Null]
     /\ wc' = "checkedOut"
     /\ IF ~found
        THEN /\ resp' = Response(404, "Module not found", <<>>, EmptyObject, 0)
             /\ UNCHANGED <<mfs, seen>>
        ELSE /\ History(got, first)
             /\ resp' = IF first /= 0 \/ raises
                        THEN Response(500, "Failed to fetch microflows for module",
                                      <<>>, EmptyObject, 0)
                        ELSE Response(200, "", microflowNames, EmptyObject, 0)
     /\ UNCHANGED <<containers, entities, loc, calls>>

\* ------------------------------------------------- the lookup of one microflow
\* The invocations of getModuleName on the elements of a set leave their
\* outcomes behind; got[i] is the finished call on element i.
HistoryOf(got, invoked) ==
  /\ seen' = [i \in 1..Len(mfs) |->
                IF i \in invoked THEN seen[i] \cup {Outcome(got[i])} ELSE seen[i]]
  /\ mfs' = [i \in 1..Len(mfs) |-> IF i \in invoked THEN got[i].microflow ELSE mfs[i]]

\* Lines 239 and 327: allMicroflows.find(mf => mf.name === microflowName), the
\* index of the first microflow of that name, 0 for undefined.
FindByName(microflowName) == FirstAt({i \in 1..Len(mfs) : mfs[i].name = microflowName})

\* find reads the name of every element up to the one it returns.
FindRaises(microflowName) ==
  \E i \in 1..Len(mfs) :
    mfs[i].nameFault /\ (FindByName(microflowName) = 0 \/ i <= FindByName(microflowName))

\* Lines 242-247 and 329-334: with a moduleName, the element found by name is
\* kept only if getModuleName gives that very module; 0 is undefined.
CheckModule(found, moduleName, got) ==
  IF Truthy(moduleName) /\ found /= 0 /\ got[found].result /= moduleName THEN 0 ELSE found

\* Line 253: allMicroflows.slice(0, 10).
SliceLimit == 10
Min(a, b) == IF a < b THEN a ELSE b

DetailResponse(status, error, detail) ==
  [Response(status, error, <<>>, EmptyObject, 0) EXCEPT !.microflow = detail]

\* GET /apps/:appId/microflows/:microflowName (lines 224-309).  The 404 body
\* lists the first microflows, reading mf.name and calling getModuleName on
\* each; of the details of a microflow the model keeps name, module and
\* qualifiedName.
MicroflowDetail(microflowName, moduleName) ==
  LET got == [i \in 1..Len(mfs) |-> getModuleName(i)]
      found == FindByName(microflowName)
      findRaises == FindRaises(microflowName)
      checked == ~findRaises /\ Truthy(moduleName) /\ found /= 0
      checkRaises == checked /\ got[found].pc = "thrown"
      targetMicroflow == CheckModule(found, moduleName, got)
      listed == 1..Min(Len(mfs), SliceLimit)
      firstListed == FirstAt({i \in listed : mfs[i].nameFault})
      available == {i \in listed : firstListed = 0 \/ i < firstListed}
      invoked ==
        IF findRaises THEN {}
        ELSE (IF checked THEN {found} ELSE {})
             \cup (IF checkRaises THEN {}
                   ELSE IF targetMicroflow = 0 THEN available ELSE {targetMicroflow})
      failed == "Failed to fetch microflow details"
  IN /\ req' = [route |-> "detail", moduleName |-> moduleName, name |-> Str(microflowName)]
     /\ wc' = "checkedOut"
     /\ HistoryOf(got, invoked)
     /\ resp' =
          IF findRaises \/ checkRaises THEN DetailResponse(500, failed, NoDetail)
          ELSE IF targetMicroflow = 0
          THEN IF firstListed /= 0 THEN DetailResponse(500, failed, NoDetail)
               ELSE DetailResponse(404, "Microflow not found", NoDetail)
          ELSE IF got[targetMicroflow].pc = "thrown" \/ ReadRaises(targetMicroflow)
          THEN DetailResponse(500, failed, NoDetail)
          ELSE LET r == MicroflowRecord(targetMicroflow, got[targetMicroflow].result)
               IN DetailResponse(200, "",
                    [name |-> r.name, module |-> r.module, qualifiedName |-> Str(r.qualifiedName)])
     /\ UNCHANGED <<containers, entities, loc, calls>>

\* GET /apps/:appId/microflows/:microflowName/details (lines 312-383).  The
\* answer carries name and qualifiedName as they are, and no module; the
\* actions and flows of the loaded microflow are not part of the model.
MicroflowStructure(microflowName, moduleName) ==
  LET got == [i \in 1..Len(mfs) |-> getModuleName(i)]
      found == FindByName(microflowName)
      findRaises == FindRaises(microflowName)
      checked == ~findRaises /\ Truthy(moduleName) /\ found /= 0
      checkRaises == checked /\ got[found].pc = "thrown"
      targetMicroflow == CheckModule(found, moduleName, got)
      failed == "Failed to fetch full microflow structure"
  IN /\ req' = [route |-> "details", moduleName |-> moduleName, name |-> Str(microflowName)]
     /\ wc' = "checkedOut"
     /\ HistoryOf(got, IF checked THEN {found} ELSE {})
     /\ resp' =
          IF findRaises \/ checkRaises THEN DetailResponse(500, failed, NoDetail)
          ELSE IF targetMicroflow = 0 THEN DetailResponse(404, "Microflow not found", NoDetail)
          ELSE IF ReadRaises(targetMicroflow) THEN DetailResponse(500, failed, NoDetail)
          ELSE DetailResponse(200, "",
                 [name |-> mfs[targetMicroflow].name, module |-> Null,
                  qualifiedName |-> mfs[targetMicroflow].qualifiedName])
     /\ UNCHANGED <<containers, entities, loc, calls>>

\* ------------------------------------------- entities (src/src/index.ts)
\* const { moduleName = 'MyFirstModule' }: the default stands in for an
\* absent value only.
DefaultModule == <<"M", "y", "F", "i", "r", "s", "t", "M", "o", "d", "u", "l", "e">>
ModuleOrDefault(moduleName) == IF moduleName.isNull THEN DefaultModule ELSE moduleName.s

\* allDomainModels().filter(dm => dm.containerAsModule.name === moduleName)[0]:
\* every module has its domain model; 0 is undefined.
DomainModelOf(moduleName) ==
  FirstAt({n \in Nodes : IsModule(n) /\ containers[n].name = moduleName})

EntitiesResponse(status, error, list) ==
  [Response(status, error, <<>>, EmptyObject, 0) EXCEPT !.entities = list, !.count = Len(list)]

\* GET /apps/:appId/entities (lines 16-63).
GetEntities(moduleName) ==
  LET domainModelInterface == DomainModelOf(ModuleOrDefault(moduleName))
  IN /\ req' = [route |-> "entities", moduleName |-> Str(ModuleOrDefault(moduleName)),
                name |-> Null]
     /\ wc' = "checkedOut"
     /\ resp' = IF domainModelInterface = 0
                THEN EntitiesResponse(404, "Module not found", <<>>)
                ELSE EntitiesResponse(200, "", entities[domainModelInterface])
     /\ UNCHANGED <<containers, entities, mfs, loc, seen, calls>>

\* POST /apps/:appId/entities (lines 111-158): the one handler that discards
\* its working copy, on its 404 path; the entity created is committed to the
\* repository.
CreateEntity(entityName, moduleName) ==
  LET domainModelInterface == DomainModelOf(ModuleOrDefault(moduleName))
  IN /\ req' = [route |-> "create", moduleName |-> Str(ModuleOrDefault(moduleName)),
                name |-> entityName]
     /\ IF ~Truthy(entityName)
        THEN /\ wc' = "none"
             /\ resp' = EntitiesResponse(400, "entityName is required", <<>>)
             /\ UNCHANGED entities
        ELSE IF domainModelInterface = 0
        THEN /\ wc' = "deleted"
             /\ resp' = EntitiesResponse(404, "Module not found", <<>>)
             /\ UNCHANGED entities
        ELSE /\ Len(entities[domainModelInterface]) < MaxEntities
             /\ wc' = "checkedOut"
             /\ entities' = [entities EXCEPT ![domainModelInterface] = Append(@, entityName.s)]
             /\ resp' = EntitiesResponse(200, "", <<entityName.s>>)
     /\ UNCHANGED <<containers, mfs, loc, seen, calls>>

\* The moduleName a request can carry: none, empty, or a name of the model's.
RequestNames == {NodeNames[k] : k \in 1..Len(NodeNames)}
QueryNames == {Null, Str(<<>>)} \cup {Str(n) : n \in RequestNames}

List == \E m \in QueryNames : ListMicroflows(m)
ByModule == \E m \in RequestNames : ModuleMicroflows(m)

Init ==
  /\ containers \in TreeGraphs
  /\ mfs \in BatchLists
  /\ Quiet

Next == List \/ ByModule

\* One request after another on a model of several microflows.
Spec == Init /\ [][Next]_vars

\* ---------------------------------------- all routes, on microflows that
\* can share a name
\* The elements as <<qualifiedName, direct owner, container, raising
\* attribute, name raises>>: one at every depth of the chain and one outside
\* it, one whose qualifiedName raises and one whose name raises.
LookupShapes ==
  {<<Null, NoRef, c, NoFault, FALSE>> : c \in {NoRef} \cup Nodes}
  \cup {<<Null, NoRef, 1, "qualifiedName", FALSE>>,
        <<Null, NoRef, 1, NoFault, TRUE>>}

LookupNames == {MfNames[k] : k \in 1..Len(MfNames)}

LookupLists ==
  {[i \in 1..NumMf |->
      Element(nm[i], sh[i][1], sh[i][2], sh[i][3], sh[i][4], sh[i][5])] :
     nm \in [1..NumMf -> LookupNames], sh \in [1..NumMf -> LookupShapes]}

\* What the requests on entities carry: entityName absent or given, and
\* moduleName absent (the default applies) or the name of the first container.
EntityNames == {Null, Str(<<"E">>)}
EntityModules == {Null, Str(NameOfNode(1))}

Detail == \E n \in LookupNames, m \in QueryNames : MicroflowDetail(n, m)
Details == \E n \in LookupNames, m \in QueryNames : MicroflowStructure(n, m)
Entities == \E m \in EntityModules : GetEntities(m)
Create == \E e \in EntityNames, m \in EntityModules : CreateEntity(e, m)

LookupInit ==
  /\ containers \in TreeGraphs
  /\ mfs \in LookupLists
  /\ Quiet

LookupNext == List \/ ByModule \/ Detail \/ Details \/ Entities \/ Create

\* One request after another, of any route.
LookupSpec == LookupInit /\ [][LookupNext]_vars

\* ================================================================ claims
\* The element of the running call, and its ancestors as the model has them.
Target == mfs[loc.mf]

RECURSIVE Up(_, _)
Up(c, k) == IF k = 0 \/ c = NoRef THEN c ELSE Up(containers[c].container, k - 1)

Acyclic(c) == Up(c, NumNodes) = NoRef
Depth(c) == CHOOSE k \in 0..NumNodes : Up(c, k) = NoRef /\ \A j \in 0..(k - 1) : Up(c, j) /= NoRef
ModuleAt(c, k) == Up(c, k) /= NoRef /\ IsModule(Up(c, k))
HasModuleAncestor(c) == \E k \in 0..(NumNodes - 1) : ModuleAt(c, k)
NearestAt(c) == CHOOSE k \in 0..(NumNodes - 1) : ModuleAt(c, k) /\ \A j \in 0..(k - 1) : ~ModuleAt(c, j)
NearestModule(c) == Up(c, NearestAt(c))

\* The text before the first delimiter of a string that has one.
HasDelimiter(str) == \E k \in 1..Len(str) : str[k] = Dot
FirstSegment(str) ==
  CHOOSE p \in {SubSeq(str, 1, k) : k \in 0..(Len(str) - 1)} :
    /\ \A k \in 1..Len(p) : p[k] /= Dot
    /\ str[Len(p) + 1] = Dot

\* C1. Shortcut precedence: a call on an element whose direct owner is present
\* (and whose reads of the owner and of its name do not raise) returns the
\* owner's name, whatever the container chain and qualifiedName hold.
C1_ShortcutPrecedence ==
  (LocDone(loc) /\ Target.containerAsModule /= NoRef
     /\ Target.fault \notin {"containerAsModule", "name"})
  => (loc.pc = "returned" /\ loc.result = Str(containers[Target.containerAsModule].name))

C1_Witness ==
  /\ loc.pc = "returned"
  /\ Target.containerAsModule /= NoRef
  /\ Target.fault = NoFault
  /\ HasModuleAncestor(Target.container)
  /\ containers[NearestModule(Target.container)].name /= containers[Target.containerAsModule].name
  /\ Target.qualifiedName = Str(<<"s", Dot, "P">>)
  /\ loc.result = Str(UnknownLabel)

\* C2. Ancestor walk before heuristic: with no direct owner and a module
\* somewhere on the container chain, the call returns the name of the nearest
\* module, at any depth, whatever qualifiedName holds.
C2_NearestModule ==
  (LocDone(loc) /\ Target.containerAsModule = NoRef /\ HasModuleAncestor(Target.container)
     /\ Target.fault \in {NoFault, "qualifiedName"})
  => (loc.pc = "returned" /\ loc.result = Str(containers[NearestModule(Target.container)].name))

C2_Witness ==
  /\ loc.pc = "returned"
  /\ Target.containerAsModule = NoRef
  /\ Target.fault = NoFault
  /\ HasModuleAncestor(Target.container)
  /\ NearestAt(Target.container) = 2
  /\ Target.qualifiedName = Str(<<"s", Dot, "P">>)
  /\ loc.result = Str(UnknownLabel)

\* C3. Heuristic and failure: with no direct owner and no module on an
\* acyclic container chain, the call returns the first dot-delimited segment
\* of a qualifiedName that has a delimiter, and null otherwise.
C3_HeuristicOrNull ==
  (LocDone(loc) /\ Target.containerAsModule = NoRef /\ Acyclic(Target.container)
     /\ ~HasModuleAncestor(Target.container) /\ Target.fault \in {NoFault, "name"})
  => /\ loc.pc = "returned"
     /\ loc.result = IF ~Target.qualifiedName.isNull /\ HasDelimiter(Target.qualifiedName.s)
                     THEN Str(FirstSegment(Target.qualifiedName.s))
                     ELSE Null

C3_Witness ==
  /\ loc.pc = "returned"
  /\ Target.containerAsModule = NoRef
  /\ Target.container = 1
  /\ Acyclic(Target.container)
  /\ ~HasModuleAncestor(Target.container)
  /\ Target.fault = NoFault
  /\ Target.qualifiedName = Str(<<"S", Dot, "s", Dot, "P">>)
  /\ loc.result = Str(<<"S">>)

\* C4. Fault containment: whatever attribute read raises, the call returns
\* null and raises nothing to its caller.
C4_FaultContained ==
  /\ loc.pc /= "thrown"
  /\ (loc.pc = "returned" /\ loc.caught) => loc.result = Null

\* An element with one attribute whose read raises, and one with none.
Malformed(i) == mfs[i].fault /= NoFault /\ ~mfs[i].nameFault
Sound(i) == mfs[i].fault = NoFault /\ ~mfs[i].nameFault

\* C5. Batch isolation: the listing of N microflows of which one has an
\* attribute whose read raises answers 200 with N records, the malformed one
\* with a null module.
C5_BatchIsolation ==
  (req.route = "list"
     /\ \E i \in 1..Len(mfs) : Malformed(i) /\ \A j \in 1..Len(mfs) \ {i} : Sound(j))
  => /\ resp.status = 200
     /\ resp.totalCount = Len(mfs)
     /\ ~Truthy(req.moduleName) =>
          /\ Len(resp.microflows) = Len(mfs)
          /\ \A i \in 1..Len(mfs) : Malformed(i) => resp.microflows[i].module = Null

\* C6. Cycle guard: a call whose walk has begun ends, also on a container
\* chain that refers back to itself.
C6_WalkEnds == (loc.pc \in {"walk", "body"}) ~> LocDone(loc)

\* The number of containers the walk from c has to examine, and what the
\* walk has examined so far measured against it.
Stop(c) == IF HasModuleAncestor(c) THEN NearestAt(c) + 1 ELSE Depth(c)

WalkBound ==
  (loc.pc /= "idle" /\ Acyclic(Target.container))
  => /\ Len(loc.visited) <= Stop(Target.container)
     /\ Stop(Target.container) <= Depth(Target.container)
     /\ \A k \in 1..Len(loc.visited) : loc.visited[k] = Up(Target.container, k - 1)
     /\ loc.pc = "heuristic" => Len(loc.visited) = Depth(Target.container)
     /\ (loc.pc = "returned" /\ ~loc.caught /\ Target.containerAsModule = NoRef
           /\ HasModuleAncestor(Target.container))
        => /\ Len(loc.visited) = Stop(Target.container)
           /\ IsModule(loc.visited[Len(loc.visited)])

\* C7. Termination bound: on an acyclic container chain of depth d the walk
\* examines the ancestors in order, each once, at most d of them, stops at
\* the first module or at the root, and the call ends.
C7_WalkBound ==
  /\ []WalkBound
  /\ (loc.pc \in {"walk", "body"} /\ Acyclic(Target.container)) ~> LocDone(loc)

C7_Witness ==
  /\ loc.pc = "heuristic"
  /\ Acyclic(Target.container)
  /\ Len(loc.visited) = NumNodes

\* C8. Determinism and purity: the calls on one element all have the same
\* outcome, whatever calls on the other element come between them, and no
\* step changes an element or a container.
C8_Deterministic ==
  /\ [](\A i \in 1..Len(mfs) : Cardinality(seen[i]) <= 1)
  /\ [][mfs' = mfs /\ containers' = containers]_vars

C8_Witness ==
  /\ calls[1] = 2
  /\ calls[2] = 2
  /\ seen[1] /= seen[2]

\* The names of the microflows of a set of indices, in enumeration order,
\* and whether a handler's call resolved microflow i to a given value.
RECURSIVE NamesFrom(_, _)
NamesFrom(i, wanted) ==
  IF i > Len(mfs) THEN <<>>
  ELSE (IF i \in wanted THEN <<mfs[i].name>> ELSE <<>>) \o NamesFrom(i + 1, wanted)

ResolvedTo(i, wanted) == \E o \in seen[i] : ~o.thrown /\ o.value = wanted

\* C9. Group filter: a 200 answer to a request that names a module holds
\* exactly the enumerated microflows that getModuleName resolved to that very
\* name, in enumeration order, and counts them; without a filter it holds all.
C9_GroupFilter ==
  resp.status = 200
  => LET Wanted == {i \in 1..Len(mfs) : (req.route = "list" /\ ~Truthy(req.moduleName))
                                          \/ ResolvedTo(i, req.moduleName)}
     IN /\ [k \in 1..Len(resp.microflows) |-> resp.microflows[k].name] = NamesFrom(1, Wanted)
        /\ resp.count = Len(NamesFrom(1, Wanted))
        /\ Truthy(req.moduleName) =>
             \A k \in 1..Len(resp.microflows) : resp.microflows[k].module = req.moduleName

C9_Witness ==
  /\ req = [route |-> "list", moduleName |-> Str(<<"S">>), name |-> Null]
  /\ resp.status = 200
  /\ resp.count = 1
  /\ resp.microflows[1].name = NameOfMf(2)
  /\ ResolvedTo(1, Str(<<"s">>))

\* C10. Distinguishable fallback label: in a 200 answer of the listing, no
\* group of microflowsByModule holds both a microflow whose module is
\* unresolved and a microflow of a module of the model.
C10_FallbackDistinct ==
  (req.route = "list" /\ resp.status = 200)
  => \A key \in DOMAIN resp.microflowsByModule :
       \A a \in 1..Len(resp.microflowsByModule[key]) :
         \A b \in 1..Len(resp.microflowsByModule[key]) :
           ~(/\ resp.microflowsByModule[key][a].module = Null
             /\ ~resp.microflowsByModule[key][b].module.isNull
             /\ \E n \in Nodes :
                  IsModule(n) /\ containers[n].name = resp.microflowsByModule[key][b].module.s)

\* Whether getModuleName, called on microflow i, returns the given module.
Resolves(i, moduleName) ==
  LET l == getModuleName(i) IN l.pc = "returned" /\ l.result = moduleName

\* Whether microflow i is the one a lookup names: it has the name, and with
\* a moduleName it resolves to that module.
Located(i) ==
  /\ mfs[i].name = req.name.s
  /\ Truthy(req.moduleName) => Resolves(i, req.moduleName)

\* C11. Not-found outcome: a request whose moduleName filter matches no
\* enumerated microflow, or that names a microflow the model does not have,
\* is answered 404, not 200 with an empty result and not 500.
C11_NotFound ==
  /\ (req.route \in {"list", "module"} /\ Truthy(req.moduleName)
        /\ \A i \in 1..Len(mfs) : ~Resolves(i, req.moduleName))
     => resp.status = 404
  /\ (req.route \in {"detail", "details"} /\ \A i \in 1..Len(mfs) : ~Located(i))
     => resp.status = 404

\* C12. Working-copy lifecycle: no request that has checked out a working
\* copy ends, whatever its answer, with the working copy not discarded.
C12_WorkingCopyDiscarded == req.route /= "none" => wc /= "checkedOut"

\* C13. Lookup by name and module: a lookup with a moduleName, of a name and
\* module that some microflow of the model has, is not answered 404
\* 'Microflow not found', wherever that microflow stands in the enumeration.
C13_LookupByNameAndModule ==
  (req.route \in {"detail", "details"} /\ Truthy(req.moduleName)
     /\ \E i \in 1..Len(mfs) : Located(i))
  => ~(resp.status = 404 /\ resp.error = "Microflow not found")

====
